---- MODULE Spec2Model ----
(***************************************************************************)
(* Stavue: the store registry (createStavue / defineStore.useStore) and    *)
(* the store assembly (setupStore) of src/src/store.ts.                    *)
(*                                                                         *)
(* A store instance is a PLAIN object (storeInstance = {}, store.ts:95):   *)
(* its properties are slots that hold a bound action, a per-field handle   *)
(* (toRefs), a computed or a control method.  The state lives in a         *)
(* separate reactive object (reactiveState), which only the handles, the   *)
(* control methods and the code that was handed the state (subscriber      *)
(* callbacks, getters) can reach.                                          *)
(***************************************************************************)
EXTENDS Integers, Sequences, FiniteSets, TLC

\* ---------------------------------------------------------------- bounds
MaxInst == 3
MaxTokens == 3
MaxVal == 2
MaxFaults == 1
MaxRuns == 3

\* ------------------------------------------------------- the environment
\* Two createStavue() calls, each installed on its own application.
Registries == {"app1", "app2"}
\* A component context in which no registry was installed: inject finds
\* nothing.
NoRegistry == "none"
\* The identifiers of the defineStore calls.
Ids == {"A", "B"}
\* The callbacks application code subscribes.
Callbacks == {"cb1", "cb2"}
\* A callback that calls its own unsubscribe function when it is called.
OnceCallback == "cbOnce"
\* The callback a plugin subscribes (README, persistence plugin).
PluginCallback == "cbP"
\* What a plugin does with its context: subscribe to the store; throw, in
\* a lookup whose fault is "plugin"; look the same store up again, in a
\* lookup whose fault is "reenter" (once: not from inside a nested lookup).
PluginKinds == {"subscribe", "mayThrow", "reenter"}
\* The plugin lists a registry may be created with.
PluginLists ==
    { <<>>, <<"subscribe", "mayThrow", "reenter">> }
\* What one lookup runs into: nothing, a state factory that throws, a
\* plugin that throws, a plugin that looks the store up again.
Faults == {"none", "factory", "plugin", "reenter"}
\* The values application code writes.
Vals == 1..MaxVal
\* The names of the control methods.
MethodNames == {"$reset", "$subscribe"}
\* The actions of the store definition: increment(amount) does
\* this.a += amount, incrementTwice() calls this.increment(1) twice.
ActionNames == {"increment", "incrementTwice"}
\* The getter of the store definition: double: (state) => state.a * 2.
GetterNames == {"double"}

\* The names a definition may give its actions, state fields and getters.
DefinitionNames == {"x", "$reset", "$subscribe"}
\* What arithmetic on a handle object gives instead of a number
\* ("[object Object]1", NaN).
Garbage == -1

VARIABLES
    plugins,       \* registry -> its plugin list (Stavue.plugins)
    activeStores,  \* registry -> (identifier -> store)   (Stavue.activeStores)
    stores,        \* every store object built, by its identity
    attempts,      \* registry, identifier -> state factory invocations
    pluginLog,     \* registry, identifier -> the plugin calls made, each with
                   \* what the plugin found (see RunPlugins)
    returned,      \* registry, identifier -> the stores lookups returned
    threw,         \* registry, identifier -> assemblies that threw
    nestedLookup,  \* registry, identifier -> looked up during its assembly
    delivered,     \* the subscriber calls made by the last operation
    lastOp         \* the last operation: what, on which store, with what

vars ==
    << plugins, activeStores, stores, attempts, pluginLog,
       returned, threw, nestedLookup, delivered, lastOp >>

\* ---------------------------------------------------------------- helpers
\* Array.prototype.indexOf, 1-based; 0 when absent (JavaScript's -1).
IndexOf(seq, x) ==
    IF \E k \in 1..Len(seq) : seq[k] = x
    THEN CHOOSE k \in 1..Len(seq) : seq[k] = x /\ \A j \in 1..(k - 1) : seq[j] # x
    ELSE 0

\* Array.prototype.splice(index, 1).
Splice(seq, k) ==
    [j \in 1..(Len(seq) - 1) |-> IF j < k THEN seq[j] ELSE seq[j + 1]]

\* A function with one key more (or one key overwritten).
Put(f, k, v) ==
    [x \in (DOMAIN f) \cup {k} |-> IF x = k THEN v ELSE f[x]]

\* A function with one key less.
Drop(f, k) ==
    [x \in (DOMAIN f) \ {k} |-> f[x]]

Min(a, b) ==
    IF a < b THEN a ELSE b

\* The state as a reader sees it: field n read through its nested object.
View(state, hp) ==
    [k \in DOMAIN state |-> IF k = "n" THEN hp[state[k]] ELSE state[k]]

\* The sum of a counter over all registries and identifiers.
Sum(cnt) ==
    LET RECURSIVE Add(_)
        Add(S) == IF S = {} THEN 0
                  ELSE LET p == CHOOSE q \in S : TRUE
                       IN  cnt[p[1]][p[2]] + Add(S \ {p})
    IN  Add(Registries \X Ids)

\* ------------------------------------------------------------- the world
\* The program state as one value, so that an operation that calls others
\* (a lookup that assembles, a plugin that subscribes or looks up) is one
\* function of it.
World ==
    [ plugins |-> plugins, activeStores |-> activeStores, stores |-> stores,
      attempts |-> attempts,
      pluginLog |-> pluginLog, returned |-> returned, threw |-> threw,
      nestedLookup |-> nestedLookup, delivered |-> <<>>, ok |-> TRUE, ret |-> 0 ]

Commit(W, op) ==
    /\ plugins' = W.plugins
    /\ activeStores' = W.activeStores
    /\ stores' = W.stores
    /\ attempts' = W.attempts
    /\ pluginLog' = W.pluginLog
    /\ returned' = W.returned
    /\ threw' = W.threw
    /\ nestedLookup' = W.nestedLookup
    /\ delivered' = W.delivered
    /\ lastOp' = op

\* The record of an operation: its name, the registry and the store it
\* acted on (<<>>: none), and its arguments.
Op(op, reg, store, key, val) ==
    [op |-> op, reg |-> reg, store |-> store, key |-> key, val |-> val]

\* ------------------------------------------------- the store definition
\* options.state(): a fresh plain object {a: 1, n: {x: 1}}.  Field n holds
\* the address of the nested object; heap gives each nested object's x.
StateFactory ==
    [ state |-> [k \in {"a", "n"} |-> IF k = "n" THEN "init" ELSE 1],
      heap |-> [o \in {"init"} |-> 1] ]

\* structuredClone(initialState): a copy whose nested object is a copy too.
StructuredClone(state, hp) ==
    [ state |-> [k \in DOMAIN state |-> IF k = "n" THEN "clone" ELSE state[k]],
      heap |-> Put(hp, "clone", hp[state["n"]]) ]

\* A property of the store instance.
Slot(kind, key, val) ==
    [kind |-> kind, key |-> key, val |-> val]

\* storeInstance[actionName] = actions[actionName].bind(storeInstance).
BindActionsToStoreInstance(actions, slots) ==
    [k \in (DOMAIN slots) \cup actions |->
        IF k \in actions THEN Slot("action", k, 0) ELSE slots[k]]

\* storeInstance[getterName] = computed(() => getter.call(storeInstance,
\* state)).
BindGettersToStoreInstance(getters, slots) ==
    [k \in (DOMAIN slots) \cup getters |->
        IF k \in getters THEN Slot("computed", k, 0) ELSE slots[k]]

\* The getter function double, on the state it is handed.
Getter(view) ==
    view["a"] * 2

\* A state object whose fields are copied to the instance as plain values
\* only (no handles).
AssignStateCopiesOnly(state, hp, slots) ==
    [k \in (DOMAIN slots) \cup (DOMAIN state) |->
        IF k \in DOMAIN state
        THEN Slot("plain", k, View(state, hp)[k]) ELSE slots[k]]

\* Object.assign(storeInstance, state); Object.assign(storeInstance,
\* toRefs(state)): each field is first copied as a plain value, then the
\* same property is overwritten with the field's handle.
AssignStateToStoreInstance(state, hp, slots) ==
    LET plain == [k \in (DOMAIN slots) \cup (DOMAIN state) |->
                    IF k \in DOMAIN state
                    THEN Slot("plain", k, View(state, hp)[k]) ELSE slots[k]]
    IN  [k \in DOMAIN plain |->
            IF k \in DOMAIN state THEN Slot("handle", k, 0) ELSE plain[k]]

\* storeInstance[methodName] = method.bind(storeInstance), for $reset and
\* $subscribe.
BindMethodsToStoreInstance(slots) ==
    [k \in (DOMAIN slots) \cup MethodNames |->
        IF k \in MethodNames THEN Slot("method", k, 0) ELSE slots[k]]

\* An assembly that copies the state fields first and binds the actions
\* after them.
AttachStateFirst(actions, state, hp, getters) ==
    BindMethodsToStoreInstance(
        BindGettersToStoreInstance(getters,
            BindActionsToStoreInstance(actions,
                AssignStateToStoreInstance(state, hp, <<>>))))

\* The attach order of setupStore on the empty storeInstance: the actions,
\* the state fields, the getters, then the methods $reset and $subscribe.
AttachInOrder(actions, state, hp, getters) ==
    BindMethodsToStoreInstance(
        BindGettersToStoreInstance(getters,
            AssignStateToStoreInstance(state, hp,
                BindActionsToStoreInstance(actions, <<>>))))

\* The store object setupStore builds before it runs the plugins, with the
\* closure variables of setupStore that belong to it, and the computed of
\* its getter: not evaluated yet (dirty), its value (cached) and the number
\* of runs of the getter function.
NewStore(r, id) ==
    LET init == StateFactory
        clone == StructuredClone(init.state, init.heap)
    IN  [ reg |-> r, id |-> id,
          reactiveState |-> init.state,
          defaultState |-> clone.state,
          heap |-> clone.heap,
          subscriptions |-> <<>>,
          stopWatcher |-> FALSE,
          watches |-> 0,
          leaked |-> FALSE,
          tokens |-> <<>>,
          dirty |-> TRUE,
          cached |-> 0,
          getterRuns |-> 0,
          storeInstance |->
              AttachInOrder(ActionNames, init.state, init.heap, GetterNames) ]

\* ------------------------------------------------------- subscriptions
\* store.$subscribe(callback): push, install the watcher unless there is
\* one, return the unsubscribe function (tokens: the functions returned,
\* each with its callback and the number of times it was called, up to 2).
SubscribeW(W, i, cb) ==
    LET s == W.stores[i]
    IN  [W EXCEPT
            !.stores[i].subscriptions = Append(@, cb),
            !.stores[i].stopWatcher = TRUE,
            !.stores[i].watches = IF s.stopWatcher THEN @ ELSE @ + 1,
            !.stores[i].tokens = Append(@, [cb |-> cb, calls |-> 0])]

\* An unsubscribe function that leaves the watcher running.
UnsubscribeKeepsWatcher(W, i, t) ==
    LET s == W.stores[i]
        index == IndexOf(s.subscriptions, s.tokens[t].cb)
        W1 == [W EXCEPT !.stores[i].tokens[t].calls = Min(@ + 1, 2)]
    IN  IF index > 0
        THEN [W1 EXCEPT !.stores[i].subscriptions = Splice(s.subscriptions, index)]
        ELSE W1

\* The unsubscribe function t of store i: remove the first entry equal to
\* its callback, if any, and stop the watcher when the array is empty.
UnsubscribeW(W, i, t) ==
    LET s == W.stores[i]
        index == IndexOf(s.subscriptions, s.tokens[t].cb)
        rest == Splice(s.subscriptions, index)
        W1 == [W EXCEPT !.stores[i].tokens[t].calls = Min(@ + 1, 2)]
    IN  IF index > 0
        THEN [W1 EXCEPT
                !.stores[i].subscriptions = rest,
                !.stores[i].stopWatcher = IF Len(rest) = 0 THEN FALSE ELSE @]
        ELSE W1

\* The unsubscribe function a callback registered once holds: the one its
\* $subscribe call returned.
TokenOf(W, i, cb) ==
    CHOOSE t \in 1..Len(W.stores[i].tokens) : W.stores[i].tokens[t].cb = cb

RECURSIVE ForEach(_, _, _)
\* _subscriptions.forEach(callback => callback(mutation, newState)), from
\* index k on: forEach reads the array as it is when it comes to an index,
\* so an entry removed during the loop moves the later ones one index down.
\* Each callback is called with the mutation and the state as it is now;
\* the callback OnceCallback then calls its unsubscribe function.
ForEach(W, i, k) ==
    LET s == W.stores[i]
    IN  IF k > Len(s.subscriptions)
        THEN W
        ELSE LET cb == s.subscriptions[k]
                 call == [ store |-> i, cb |-> cb, storeId |-> s.id,
                           type |-> "direct",
                           state |-> View(s.reactiveState, s.heap) ]
                 W1 == [W EXCEPT !.delivered = Append(@, call)]
                 W2 == IF cb = OnceCallback
                       THEN UnsubscribeW(W1, i, TokenOf(W1, i, cb))
                       ELSE W1
             IN  ForEach(W2, i, k + 1)

\* A watch callback that calls the callbacks of every store of the
\* registry (one _subscriptions array for all of them).
WatchCallbackShared(W, i) ==
    LET RECURSIVE Over(_, _)
        Over(V, S) == IF S = {} THEN V
                      ELSE LET j == CHOOSE x \in S : TRUE
                           IN  Over(ForEach(V, j, 1), S \ {j})
    IN  Over(W, {j \in DOMAIN W.stores : j[1] = i[1]})

\* The watch callback of $subscribe: every callback of _subscriptions, in
\* the order of the array.
WatchCallback(W, i) ==
    LET W1 == ForEach(W, i, 1)
    IN  [W1 EXCEPT !.stores[i].leaked = @ \/ Len(W.stores[i].subscriptions) > 0]

\* A change of the reactive state: the sync, deep watcher runs if there is
\* one.
Trigger(W, i) ==
    IF W.stores[i].stopWatcher THEN WatchCallback(W, i) ELSE W

\* ------------------------------------------------------ reactive state
\* A trigger on key: the computed of the getter, which read state.a, is
\* marked for re-evaluation when the key is a.
Invalidate(W, i, key) ==
    IF key = "a" THEN [W EXCEPT !.stores[i].dirty = TRUE] ELSE W

\* A state write that leaves the computed as it is.
SetStateKeepsCache(W, i, key, v) ==
    LET st == W.stores[i].reactiveState
    IN  IF key \in DOMAIN st /\ st[key] = v
        THEN W
        ELSE Trigger([W EXCEPT !.stores[i].reactiveState = Put(st, key, v)], i)

\* reactiveState[key] = v: the proxy's set trap triggers when the key is
\* new or its value changes (Object.is), not otherwise.
SetStateW(W, i, key, v) ==
    LET st == W.stores[i].reactiveState
    IN  IF key \in DOMAIN st /\ st[key] = v
        THEN W
        ELSE Trigger(Invalidate(
                 [W EXCEPT !.stores[i].reactiveState = Put(st, key, v)], i, key), i)

\* The bound action increment(amount): this.a += amount, with this the
\* store instance: the property a is read (a handle object, unless it was
\* overwritten with a number), added to, and assigned.
IncrementW(W, i, amount) ==
    LET slot == W.stores[i].storeInstance["a"]
        sum == IF slot.kind = "plain" /\ slot.val # Garbage
               THEN slot.val + amount
               ELSE Garbage
    IN  [W EXCEPT !.stores[i].storeInstance["a"] = Slot("plain", "a", sum)]

\* The bound action incrementTwice(): this.increment(1); this.increment(1).
IncrementTwiceW(W, i) ==
    IncrementW(IncrementW(W, i, 1), i, 1)

\* store.double.value: the computed runs the getter function when it is
\* marked, and returns its value.
ReadGetterW(W, i) ==
    LET s == W.stores[i]
    IN  IF s.dirty
        THEN [W EXCEPT !.stores[i].dirty = FALSE,
                       !.stores[i].cached = Getter(View(s.reactiveState, s.heap)),
                       !.stores[i].getterRuns = @ + 1]
        ELSE W

\* delete reactiveState[key].
DeleteStateW(W, i, key) ==
    LET st == W.stores[i].reactiveState
    IN  IF key \in DOMAIN st
        THEN Trigger([W EXCEPT !.stores[i].reactiveState = Drop(st, key)], i)
        ELSE W

\* reactiveState.n.x = v: a write to the nested object the state holds now.
SetNestedW(W, i, v) ==
    LET addr == W.stores[i].reactiveState["n"]
    IN  IF W.stores[i].heap[addr] = v
        THEN W
        ELSE Trigger([W EXCEPT !.stores[i].heap[addr] = v], i)

\* The order of Object.keys: the factory's fields, then the added one.
KeyOrder == <<"a", "n", "extra">>

RECURSIVE DeleteLoop(_, _, _)
\* $reset, first loop: delete every key of the state that the default
\* state does not have.
DeleteLoop(W, i, k) ==
    IF k > Len(KeyOrder)
    THEN W
    ELSE LET key == KeyOrder[k]
         IN  IF key \in DOMAIN W.stores[i].reactiveState
                /\ key \notin DOMAIN W.stores[i].defaultState
             THEN DeleteLoop(DeleteStateW(W, i, key), i, k + 1)
             ELSE DeleteLoop(W, i, k + 1)

RECURSIVE AssignLoop(_, _, _)
\* Object.assign(reactiveState, defaultState): one set per key of the
\* default state, with the default state's own value (for n: the address
\* of the default state's nested object).
AssignLoop(W, i, k) ==
    IF k > Len(KeyOrder)
    THEN W
    ELSE LET key == KeyOrder[k]
         IN  IF key \in DOMAIN W.stores[i].defaultState
             THEN AssignLoop(SetStateW(W, i, key, W.stores[i].defaultState[key]),
                             i, k + 1)
             ELSE AssignLoop(W, i, k + 1)

\* A $reset that puts a new state object in place of the old one: the
\* watcher stays with the object it was installed on.
ResetReplacesState(W, i) ==
    [W EXCEPT !.stores[i].reactiveState = W.stores[i].defaultState,
              !.stores[i].stopWatcher = FALSE]

\* store.$reset().
ResetW(W, i) ==
    AssignLoop(DeleteLoop(W, i, 1), i, 1)

\* ------------------------------------------------- assembly and lookup
\* stavue.activeStores.get(id): the entry, or undefined (<<>>).
Get(W, r, id) ==
    IF id \in DOMAIN W.activeStores[r] THEN W.activeStores[r][id] ELSE <<>>

RECURSIVE UseStoreW(_, _, _, _, _)
RECURSIVE RunPlugins(_, _, _, _, _, _, _)

\* One plugin call, plugin({store, id, options, app}), of kind `kind`.
\* A throw leaves ok = FALSE.
Plugin(W, kind, r, id, i, fault, depth) ==
    CASE kind = "subscribe" -> SubscribeW(W, i, PluginCallback)
      [] kind = "mayThrow" ->
            IF fault = "plugin" THEN [W EXCEPT !.ok = FALSE] ELSE W
      [] kind = "reenter" ->
            IF fault = "reenter" /\ depth = 0
            THEN UseStoreW([W EXCEPT !.nestedLookup[r][id] = TRUE],
                           r, id, fault, depth + 1)
            ELSE W
      [] OTHER -> W

\* The record of one plugin call: the assembly it belongs to (the number
\* of its state factory call), the index of the plugin, the properties the
\* instance it is handed has, and whether the registry already holds that
\* instance.
PluginCall(W, r, id, i, k) ==
    [ store |-> i[3], k |-> k,
      attached |-> DOMAIN W.stores[i].storeInstance,
      registered |-> Get(W, r, id) = i ]

\* A plugin loop that calls the plugins left after one threw, and throws
\* at the end.
RunPluginsToTheEnd(W, r, id, i, k, fault, depth) ==
    IF k > Len(W.plugins[r])
    THEN W
    ELSE LET W1 == [W EXCEPT !.pluginLog[r][id] = Append(@, PluginCall(W, r, id, i, k))]
             W2 == Plugin(W1, W.plugins[r][k], r, id, i, fault, depth)
             W3 == RunPlugins([W2 EXCEPT !.ok = TRUE], r, id, i, k + 1, fault, depth)
         IN  [W3 EXCEPT !.ok = W2.ok /\ W3.ok]

\* plugins.forEach(plugin => plugin(...)), from plugin k on: in the order of
\* the list; a throw ends the loop and propagates.
RunPlugins(W, r, id, i, k, fault, depth) ==
    IF k > Len(W.plugins[r])
    THEN W
    ELSE LET W1 == [W EXCEPT !.pluginLog[r][id] = Append(@, PluginCall(W, r, id, i, k))]
             W2 == Plugin(W1, W.plugins[r][k], r, id, i, fault, depth)
         IN  IF W2.ok
             THEN RunPlugins(W2, r, id, i, k + 1, fault, depth)
             ELSE W2

\* An assembly that leaves an entry in the registry when the state factory
\* throws.
SetupStorePoisons(W, r, id, fault, depth) ==
    LET W0 == [W EXCEPT !.attempts[r][id] = @ + 1]
    IN  IF fault = "factory"
        THEN [W0 EXCEPT !.ok = FALSE, !.threw[r][id] = @ + 1,
                        !.activeStores[r] = Put(@, id, <<r, id, 0>>)]
        ELSE LET i == <<r, id, W0.attempts[r][id]>>
                 W1 == [W0 EXCEPT !.stores = Put(@, i, NewStore(r, id))]
                 W2 == RunPlugins(W1, r, id, i, 1, fault, depth)
             IN  IF W2.ok
                 THEN [W2 EXCEPT !.ret = i]
                 ELSE [W2 EXCEPT !.threw[r][id] = @ + 1]

\* An assembly that puts the instance in the registry before it runs the
\* plugins.
SetupStoreRegistersEarly(W, r, id, fault, depth) ==
    LET W0 == [W EXCEPT !.attempts[r][id] = @ + 1]
    IN  IF fault = "factory"
        THEN [W0 EXCEPT !.ok = FALSE, !.threw[r][id] = @ + 1]
        ELSE LET i == <<r, id, W0.attempts[r][id]>>
                 W1 == [W0 EXCEPT !.stores = Put(@, i, NewStore(r, id)),
                                  !.activeStores[r] = Put(@, id, i)]
                 W2 == RunPlugins(W1, r, id, i, 1, fault, depth)
             IN  IF W2.ok
                 THEN [W2 EXCEPT !.ret = i]
                 ELSE [W2 EXCEPT !.threw[r][id] = @ + 1]

\* An assembly that runs the plugins before the control methods are bound.
SetupStorePluginsEarly(W, r, id, fault, depth) ==
    LET W0 == [W EXCEPT !.attempts[r][id] = @ + 1]
    IN  IF fault = "factory"
        THEN [W0 EXCEPT !.ok = FALSE, !.threw[r][id] = @ + 1]
        ELSE LET i == <<r, id, W0.attempts[r][id]>>
                 built == NewStore(r, id)
                 early == [built EXCEPT !.storeInstance =
                              [k \in (DOMAIN @) \ MethodNames |-> @[k]]]
                 W1 == [W0 EXCEPT !.stores = Put(@, i, early)]
                 W2 == RunPlugins(W1, r, id, i, 1, fault, depth)
                 W3 == [W2 EXCEPT !.stores[i].storeInstance =
                           BindMethodsToStoreInstance(@)]
             IN  IF W2.ok
                 THEN [W3 EXCEPT !.ret = i]
                 ELSE [W3 EXCEPT !.threw[r][id] = @ + 1]

\* setupStore(id, options, stavue): the state factory, the default state,
\* the store object with state and methods attached, then the plugins.
\* ret is the store built, named by its registry, its identifier and the
\* number of the state factory call that made its state; a throw leaves
\* ok = FALSE.
SetupStoreW(W, r, id, fault, depth) ==
    LET W0 == [W EXCEPT !.attempts[r][id] = @ + 1]
    IN  IF fault = "factory"
        THEN [W0 EXCEPT !.ok = FALSE, !.threw[r][id] = @ + 1]
        ELSE LET i == <<r, id, W0.attempts[r][id]>>
                 W1 == [W0 EXCEPT !.stores = Put(@, i, NewStore(r, id))]
                 W2 == RunPlugins(W1, r, id, i, 1, fault, depth)
             IN  IF W2.ok
                 THEN [W2 EXCEPT !.ret = i]
                 ELSE [W2 EXCEPT !.threw[r][id] = @ + 1]

\* A lookup that takes every identifier for a new one.
HasNever(W, r, id) ==
    FALSE

\* stavue.activeStores.has(id).
Has(W, r, id) ==
    id \in DOMAIN W.activeStores[r]

\* A lookup that does not keep the store it assembled.
RegisterNothing(W, r, id, i) ==
    W

\* One map for every application (a module-level activeStores).
RegisterEverywhere(W, r, id, i) ==
    [W EXCEPT !.activeStores = [q \in Registries |-> Put(@[q], id, i)]]

\* stavue.activeStores.set(id, store).
Register(W, r, id, i) ==
    [W EXCEPT !.activeStores[r] = Put(@, id, i)]

\* A lookup that falls back on one registry shared by every context (a
\* module-level activeStores) when inject finds nothing.
UseStoreShared(W, r, id, fault, depth) ==
    LET q == IF r = NoRegistry THEN "app1" ELSE r
        W1 == IF ~Has(W, q, id)
              THEN LET S == SetupStoreW(W, q, id, fault, depth)
                   IN  IF S.ok THEN Register(S, q, id, S.ret) ELSE S
              ELSE W
    IN  IF W1.ok
        THEN [W1 EXCEPT
                !.ret = Get(W1, q, id),
                !.returned[q][id] = @ \cup {Get(W1, q, id)}]
        ELSE W1

\* useStore() of defineStore(id, options), in a context where inject finds
\* registry r, or nothing: throw when there is no registry, assemble and
\* register on a miss, return the entry.
UseStoreW(W, r, id, fault, depth) ==
    IF r = NoRegistry
    THEN [W EXCEPT !.ok = FALSE]
    ELSE LET W1 == IF ~Has(W, r, id)
                   THEN LET S == SetupStoreW(W, r, id, fault, depth)
                        IN  IF S.ok THEN Register(S, r, id, S.ret) ELSE S
                   ELSE W
         IN  IF W1.ok
             THEN [W1 EXCEPT
                     !.ret = Get(W1, r, id),
                     !.returned[r][id] = @ \cup {Get(W1, r, id)}]
             ELSE W1

\* --------------------------------------------------------------- Init
\* createStavue({plugins}): a registry with no store yet.
CreateStavue(pl) ==
    [activeStores |-> <<>>, plugins |-> pl]

\* No store is built, no lookup was made.
Fresh ==
    /\ activeStores = [r \in Registries |-> CreateStavue(plugins[r]).activeStores]
    /\ stores = <<>>
    /\ attempts = [r \in Registries |-> [id \in Ids |-> 0]]
    /\ pluginLog = [r \in Registries |-> [id \in Ids |-> <<>>]]
    /\ returned = [r \in Registries |-> [id \in Ids |-> {}]]
    /\ threw = [r \in Registries |-> [id \in Ids |-> 0]]
    /\ nestedLookup = [r \in Registries |-> [id \in Ids |-> FALSE]]
    /\ delivered = <<>>
    /\ lastOp = Op("init", "", <<>>, "", 0)

\* One application with any of the plugin lists, the other with none.
Init ==
    /\ plugins \in {f \in [Registries -> PluginLists] : f["app2"] = <<>>}
    /\ Fresh

\* The number of $subscribe calls made on the stores of W.
RECURSIVE TokenCount(_, _)
TokenCount(W, S) ==
    IF S = {} THEN 0
    ELSE LET i == CHOOSE j \in S : TRUE
         IN  Len(W.stores[i].tokens) + TokenCount(W, S \ {i})

\* The model's bounds on what one run builds.
Within(W) ==
    /\ Cardinality(DOMAIN W.stores) <= MaxInst
    /\ TokenCount(W, DOMAIN W.stores) <= MaxTokens
    /\ Sum(W.threw) <= MaxFaults

\* The stores application code holds: those some lookup has returned.
Held ==
    UNION {returned[r][id] : r \in Registries, id \in Ids}

\* ------------------------------------------------------------- actions
\* A component calls useStore() for identifier id under registry r.  Only
\* an assembly can run into a fault.
UseStore(r, id, fault) ==
    LET W == UseStoreW(World, r, id, fault, 0)
        how == IF ~W.ok THEN "throw"
               ELSE IF id \in DOMAIN activeStores[r] THEN "hit" ELSE "miss"
    IN  /\ id \in DOMAIN activeStores[r] => fault = "none"
        /\ Within(W)
        /\ Commit(W, Op("useStore", r, IF W.ok THEN W.ret ELSE <<>>, how, 0))

\* A component calls useStore() for identifier id in a context where no
\* registry is installed.
UseStoreUninstalled(id) ==
    LET W == UseStoreW(World, NoRegistry, id, "none", 0)
    IN  /\ Within(W)
        /\ Commit(W, Op("useStore", NoRegistry, IF W.ok THEN W.ret ELSE <<>>,
                        IF W.ok THEN "found" ELSE "throw", 0))

\* store.$subscribe(cb) on a store a lookup returned.
Subscribe(i, cb) ==
    LET W == SubscribeW(World, i, cb)
    IN  /\ i \in Held
        /\ Within(W)
        /\ Commit(W, Op("subscribe", i[1], i, cb, Len(W.stores[i].tokens)))

\* store.$subscribe(OnceCallback), once per store: the callback keeps the
\* unsubscribe function returned.
SubscribeOnce(i) ==
    LET W == SubscribeW(World, i, OnceCallback)
    IN  /\ i \in Held
        /\ \A t \in 1..Len(stores[i].tokens) : stores[i].tokens[t].cb # OnceCallback
        /\ Within(W)
        /\ Commit(W, Op("subscribe", i[1], i, OnceCallback, Len(W.stores[i].tokens)))

\* The storeInstance setupStore assembles for a definition whose actions,
\* state fields and getters carry the given names (every field holds 1):
\* the definition is recorded as the key, the assembled instance as the
\* value.
DefineStore(actions, fields, getters) ==
    LET state == [k \in fields |-> 1]
    IN  Commit(World, Op("defineStore", "", <<>>, <<actions, fields, getters>>,
                         AttachInOrder(actions, state, <<>>, getters)))

\* A call of the unsubscribe function t of store i.
Unsubscribe(i, t) ==
    /\ i \in Held
    /\ t \in 1..Len(stores[i].tokens)
    /\ Commit(UnsubscribeW(World, i, t), Op("unsubscribe", i[1], i, "", t))

\* store.key.value = v: a write through the field's handle, possible while
\* the property still holds the handle.
SetHandle(i, key, v) ==
    /\ i \in Held
    /\ key \in DOMAIN stores[i].storeInstance
    /\ stores[i].storeInstance[key].kind = "handle"
    /\ Commit(SetStateW(World, i, key, v), Op("setHandle", i[1], i, key, v))

\* store.n.value.x = v: a write to a field of the nested object, reached
\* through the handle of n.
SetNested(i, v) ==
    /\ i \in Held
    /\ "n" \in DOMAIN stores[i].storeInstance
    /\ stores[i].storeInstance["n"].kind = "handle"
    /\ Commit(SetNestedW(World, i, v), Op("setNested", i[1], i, "n", v))

\* store.name = v: an assignment to a property of the store instance, a
\* plain object: the property now holds v, whatever it held.
SetDirect(i, name, v) ==
    /\ i \in Held
    /\ Commit([World EXCEPT
                 !.stores[i].storeInstance = Put(@, name, Slot("plain", name, v))],
              Op("setDirect", i[1], i, name, v))

\* state.key = v by code that was handed the reactive state (a subscriber
\* callback is called with it).
SetState(i, key, v) ==
    /\ i \in Held
    /\ stores[i].leaked
    /\ Commit(SetStateW(World, i, key, v), Op("setState", i[1], i, key, v))

\* store.$reset().
Reset(i) ==
    /\ i \in Held
    /\ Commit(ResetW(World, i), Op("reset", i[1], i, "", 0))

\* store.increment(amount).
Increment(i, amount) ==
    LET W == IncrementW(World, i, amount)
    IN  /\ i \in Held
        /\ W.stores[i].storeInstance["a"].val \in Vals \cup {Garbage}
        /\ Commit(W, Op("increment", i[1], i, "a", amount))

\* store.incrementTwice().
IncrementTwice(i) ==
    LET W == IncrementTwiceW(World, i)
    IN  /\ i \in Held
        /\ W.stores[i].storeInstance["a"].val \in Vals \cup {Garbage}
        /\ Commit(W, Op("incrementTwice", i[1], i, "a", 2))

\* A read of store.double.value, possible while the property still holds
\* the computed; the operation records the value read.
ReadGetter(i) ==
    LET W == ReadGetterW(World, i)
    IN  /\ i \in Held
        /\ stores[i].storeInstance["double"].kind = "computed"
        /\ W.stores[i].getterRuns <= MaxRuns
        /\ Commit(W, Op("readGetter", i[1], i, "double", W.stores[i].cached))

\* What reading property `name` of store i gives: the value of a plain
\* property, the field of the state behind a handle, the getter's value
\* for the state as it is behind a computed.
Read(i, name) ==
    LET s == stores[i]
        slot == s.storeInstance[name]
    IN  CASE slot.kind = "handle" -> View(s.reactiveState, s.heap)[slot.key]
          [] slot.kind = "computed" -> Getter(View(s.reactiveState, s.heap))
          [] OTHER -> slot.val

\* The data a store instance shows: its properties other than methods.
InstanceView(i) ==
    LET s == stores[i]
        names == {k \in DOMAIN s.storeInstance :
                    /\ s.storeInstance[k].kind \in {"plain", "handle"}
                    /\ s.storeInstance[k].kind = "handle"
                          => s.storeInstance[k].key \in DOMAIN s.reactiveState}
    IN  [k \in names |-> Read(i, k)]

\* The state of store i as its subscribers and getters see it.
StateView(i) ==
    View(stores[i].reactiveState, stores[i].heap)

\* The state the factory returns.
InitialView ==
    View(StateFactory.state, StateFactory.heap)

\* ------------------------------------------------------ specifications
\* The registry: lookups of both identifiers under one application, with
\* every fault, and writes to the stores they return.
Next ==
    \/ \E id \in Ids, fault \in Faults : UseStore("app1", id, fault)
    \/ \E i \in DOMAIN stores : Subscribe(i, "cb1")
    \/ \E i \in DOMAIN stores, v \in Vals : SetHandle(i, "a", v)

Spec ==
    Init /\ [][Next]_vars

\* Two applications: the same identifier looked up under each, and every
\* operation on the stores they return.
NextIso ==
    \/ \E r \in Registries : UseStore(r, "A", "none")
    \/ \E i \in DOMAIN stores : Subscribe(i, "cb1")
    \/ \E i \in DOMAIN stores, v \in Vals : SetNested(i, v)
    \/ \E i \in DOMAIN stores : Reset(i)

SpecIso ==
    Init /\ [][NextIso]_vars

\* One store and its subscriptions.
NextSub ==
    \/ UseStore("app1", "A", "none")
    \/ \E i \in DOMAIN stores, cb \in Callbacks : Subscribe(i, cb)
    \/ \E i \in DOMAIN stores, t \in 1..MaxTokens : Unsubscribe(i, t)
    \/ \E i \in DOMAIN stores, v \in Vals : SetHandle(i, "a", v)

SpecSub ==
    Init /\ [][NextSub]_vars

\* One store, its state and $reset.
NextReset ==
    \/ UseStore("app1", "A", "none")
    \/ \E i \in DOMAIN stores : Subscribe(i, "cb1")
    \/ \E i \in DOMAIN stores, v \in Vals : SetHandle(i, "a", v)
    \/ \E i \in DOMAIN stores, v \in Vals : SetNested(i, v)
    \/ \E i \in DOMAIN stores, v \in Vals : SetDirect(i, "a", v)
    \/ \E i \in DOMAIN stores, v \in Vals : SetDirect(i, "newField", v)
    \/ \E i \in DOMAIN stores, v \in Vals : SetState(i, "extra", v)
    \/ \E i \in DOMAIN stores : Reset(i)

SpecReset ==
    Init /\ [][NextReset]_vars

\* One store, its actions and what they write.
NextAct ==
    \/ UseStore("app1", "A", "none")
    \/ \E i \in DOMAIN stores : Subscribe(i, "cb1")
    \/ \E i \in DOMAIN stores, v \in Vals : SetHandle(i, "a", v)
    \/ \E i \in DOMAIN stores, v \in Vals : SetDirect(i, "a", v)
    \/ \E i \in DOMAIN stores, v \in Vals : SetDirect(i, "double", v)
    \/ \E i \in DOMAIN stores, amount \in Vals : Increment(i, amount)
    \/ \E i \in DOMAIN stores : IncrementTwice(i)
    \/ \E i \in DOMAIN stores : ReadGetter(i)

SpecAct ==
    Init /\ [][NextAct]_vars

\* One store, its handles and its getter.
NextGet ==
    \/ UseStore("app1", "A", "none")
    \/ \E i \in DOMAIN stores : Subscribe(i, "cb1")
    \/ \E i \in DOMAIN stores, v \in Vals : SetHandle(i, "a", v)
    \/ \E i \in DOMAIN stores, v \in Vals : SetNested(i, v)
    \/ \E i \in DOMAIN stores : Reset(i)
    \/ \E i \in DOMAIN stores : ReadGetter(i)

SpecGet ==
    Init /\ [][NextGet]_vars

\* Lookups with and without an installed registry.
NextCtx ==
    \/ \E id \in Ids : UseStore("app1", id, "none")
    \/ \E id \in Ids : UseStoreUninstalled(id)
    \/ \E i \in DOMAIN stores : Subscribe(i, "cb1")
    \/ \E i \in DOMAIN stores, v \in Vals : SetHandle(i, "a", v)

SpecCtx ==
    Init /\ [][NextCtx]_vars

\* Definitions whose names collide with each other and with the methods.
NextNames ==
    \E actions \in SUBSET DefinitionNames, fields \in SUBSET DefinitionNames,
       getters \in SUBSET DefinitionNames : DefineStore(actions, fields, getters)

SpecNames ==
    Init /\ [][NextNames]_vars

\* The stores A and B of one application, each with its own subscribers.
NextPer ==
    \/ \E id \in Ids : UseStore("app1", id, "none")
    \/ \E i \in DOMAIN stores, cb \in Callbacks : Subscribe(i, cb)
    \/ \E i \in DOMAIN stores, v \in Vals : SetHandle(i, "a", v)
    \/ \E i \in DOMAIN stores : Reset(i)

SpecPer ==
    Init /\ [][NextPer]_vars

\* One store with a subscriber that unsubscribes while it is called.
NextOnce ==
    \/ UseStore("app1", "A", "none")
    \/ \E i \in DOMAIN stores : Subscribe(i, "cb1")
    \/ \E i \in DOMAIN stores : SubscribeOnce(i)
    \/ \E i \in DOMAIN stores, v \in Vals : SetHandle(i, "a", v)

SpecOnce ==
    Init /\ [][NextOnce]_vars

\* ---------------------------------------------------------------- claims
\* How many times plugin k of registry r ran for identifier id.
PluginRuns(r, id, k) ==
    Cardinality({j \in 1..Len(pluginLog[r][id]) : pluginLog[r][id][j].k = k})

\* C1, as stated: for every registry and identifier, all the lookups that
\* returned gave one and the same store instance, and the state factory of
\* the identifier was invoked exactly once over all the lookups.
C1_SingletonAsStated ==
    \A r \in Registries, id \in Ids :
        returned[r][id] # {} =>
            /\ Cardinality(returned[r][id]) = 1
            /\ attempts[r][id] = 1

\* C1, amended: when no lookup of the identifier was made from inside a
\* plugin during its own assembly, all the lookups that returned gave one
\* and the same store instance, the one in the registry, and the state
\* factory was invoked once by the lookup that assembled it and once by
\* each lookup that threw before.
C1_Singleton ==
    \A r \in Registries, id \in Ids :
        ~nestedLookup[r][id] =>
            /\ Cardinality(returned[r][id]) <= 1
            /\ returned[r][id] # {} =>
                  /\ id \in DOMAIN activeStores[r]
                  /\ returned[r][id] = {activeStores[r][id]}
                  /\ attempts[r][id] = 1 + threw[r][id]
            /\ returned[r][id] = {} =>
                  /\ id \notin DOMAIN activeStores[r]
                  /\ attempts[r][id] = threw[r][id]

\* C1's case: a lookup that found the entry of an identifier whose first
\* lookup threw, and returned the store the second one assembled.
C1_Witness ==
    /\ lastOp.op = "useStore"
    /\ lastOp.key = "hit"
    /\ ~nestedLookup[lastOp.reg][lastOp.store[2]]
    /\ threw[lastOp.reg][lastOp.store[2]] = 1
    /\ attempts[lastOp.reg][lastOp.store[2]] = 2
    /\ returned[lastOp.reg][lastOp.store[2]] = {lastOp.store}

\* A step that is a lookup of an identifier the registry already holds
\* changes nothing: no state factory call, no plugin run, the same
\* registry, the same stores (state, subscriptions, watcher), no
\* subscriber call.
HitLookupChangesNothing ==
    (lastOp'.op = "useStore" /\ lastOp'.key = "hit") =>
        /\ UNCHANGED <<activeStores, stores, attempts, pluginLog, returned, threw>>
        /\ delivered' = <<>>
        /\ lastOp'.store = activeStores[lastOp'.reg][lastOp'.store[2]]

RegistryView(r) ==
    [id \in DOMAIN activeStores[r] |-> stores[activeStores[r][id]]]

\* C3: the two registries never hold the same store instance for an
\* identifier, and an operation made under one registry (a lookup, a state
\* write, a reset, a subscription) leaves everything the other registry
\* holds as it was.
C3_Isolation ==
    /\ [](\A id \in Ids :
            (id \in DOMAIN activeStores["app1"] /\ id \in DOMAIN activeStores["app2"])
                => activeStores["app1"][id] # activeStores["app2"][id])
    /\ [][\A r \in Registries :
            r # lastOp'.reg => RegistryView(r)' = RegistryView(r)]_vars

\* C3's case: both registries hold identifier A; the last operation, under
\* app1, changed the state of its store and called its subscriber, while
\* the store of app2 still has the initial state and no subscriber.
C3_Witness ==
    /\ "A" \in DOMAIN activeStores["app1"]
    /\ "A" \in DOMAIN activeStores["app2"]
    /\ lastOp.op = "setNested"
    /\ lastOp.reg = "app1"
    /\ Len(delivered) > 0
    /\ StateView(activeStores["app1"]["A"]).n # 1
    /\ StateView(activeStores["app2"]["A"]) = InitialView
    /\ stores[activeStores["app2"]["A"]].subscriptions = <<>>

\* The callbacks of the subscriptions of store i whose unsubscribe function
\* was never called, in the order of their $subscribe calls.
Registered(i) ==
    LET toks == stores[i].tokens
        RECURSIVE From(_)
        From(t) == IF t > Len(toks) THEN <<>>
                   ELSE IF toks[t].calls = 0 THEN <<toks[t].cb>> \o From(t + 1)
                   ELSE From(t + 1)
    IN  From(1)

\* How many entries of a sequence of callbacks are cb.
Count(seq, cb) ==
    Cardinality({k \in 1..Len(seq) : seq[k] = cb})

\* The callbacks called by the last operation, in the order of the calls.
Called ==
    [k \in 1..Len(delivered) |-> delivered[k].cb]

AllCallbacks ==
    Callbacks \cup {PluginCallback, OnceCallback}

\* The step is a write through the handle of a field of store i that
\* changes the state.
ChangeByHandle(i) ==
    /\ lastOp'.op = "setHandle"
    /\ lastOp'.store = i
    /\ StateView(i)' # StateView(i)

\* C4: with one callback subscribed to the store, assigning a new value v
\* to field a on the store instance makes exactly one subscriber call, to
\* that callback, with the store's identifier, type "direct" and a state
\* in which a is v.
C4_DirectWriteDelivers ==
    [][\A i \in DOMAIN stores :
         ( /\ lastOp'.op = "setDirect"
           /\ lastOp'.store = i
           /\ lastOp'.key = "a"
           /\ Read(i, "a") # lastOp'.val
           /\ Len(stores[i].subscriptions) = 1 ) =>
             /\ Len(delivered') = 1
             /\ delivered'[1].cb = stores[i].subscriptions[1]
             /\ delivered'[1].storeId = stores[i].id
             /\ delivered'[1].type = "direct"
             /\ delivered'[1].state["a"] = lastOp'.val]_vars

\* C5: at every state change, a callback is called once for each of its
\* subscriptions whose unsubscribe function was not called, and not at all
\* when it has none left: an unsubscribed callback gets no further call,
\* the still subscribed ones get every change.
C5_NoCallAfterUnsubscribe ==
    [][\A i \in DOMAIN stores :
         ChangeByHandle(i) =>
             \A cb \in AllCallbacks : Count(Called', cb) = Count(Registered(i), cb)]_vars

\* C6: the second and every later call of an unsubscribe function leaves
\* the subscriptions and the watcher of its store as they are; its first
\* call removes one subscription, of its own callback.
C6_UnsubscribeIdempotent ==
    [][\A i \in DOMAIN stores :
         (lastOp'.op = "unsubscribe" /\ lastOp'.store = i) =>
             LET tok == stores[i].tokens[lastOp'.val]
                 before == stores[i].subscriptions
                 after == stores'[i].subscriptions
             IN  IF tok.calls >= 1
                 THEN /\ after = before
                      /\ stores'[i].stopWatcher = stores[i].stopWatcher
                 ELSE /\ Len(after) = Len(before) - 1
                      /\ Count(after, tok.cb) = Count(before, tok.cb) - 1]_vars

\* C7: a store has a watcher exactly when it has a subscription, and a
\* watcher is installed exactly when a store without subscription gets
\* one: at the first $subscribe, and at the first one after the last
\* subscription was removed.
C7_WatcherLifecycle ==
    /\ [](\A i \in DOMAIN stores :
            stores[i].stopWatcher <=> Len(stores[i].subscriptions) > 0)
    /\ [][\A i \in DOMAIN stores' :
            LET old == IF i \in DOMAIN stores THEN stores[i] ELSE NewStore(i[1], i[2])
                installs == IF /\ Len(old.subscriptions) = 0
                               /\ Len(stores'[i].subscriptions) > 0
                            THEN 1 ELSE 0
            IN  stores'[i].watches = old.watches + installs]_vars

\* C7's case: a store whose subscriptions were all removed was subscribed
\* to again, twice: its watcher was installed a second time, once.
C7_Witness ==
    /\ lastOp.op = "subscribe"
    /\ stores[lastOp.store].watches = 2
    /\ stores[lastOp.store].stopWatcher
    /\ Len(stores[lastOp.store].subscriptions) = 2

\* C8: at every state change the subscribers are called in the order of
\* their $subscribe calls: when the calls made are those of the
\* subscriptions not unsubscribed, one each, they come in that order.
C8_RegistrationOrder ==
    [][\A i \in DOMAIN stores :
         ( /\ ChangeByHandle(i)
           /\ \A cb \in AllCallbacks : Count(Called', cb) = Count(Registered(i), cb) )
             => Called' = Registered(i)]_vars

\* C9: after $reset the store instance shows exactly the initial state,
\* and so does the state; a second $reset right after changes nothing.
C9_ResetRoundTrip ==
    /\ [](lastOp.op = "reset" =>
            /\ InstanceView(lastOp.store) = InitialView
            /\ StateView(lastOp.store) = InitialView)
    /\ [][(lastOp.op = "reset" /\ lastOp'.op = "reset" /\ lastOp'.store = lastOp.store)
            => stores' = stores]_vars

\* C10: the default state of every store stays equal to the initial state
\* and shares no nested object with the live state, and every $reset
\* leaves the state equal to the initial state.
C10_SnapshotImmutable ==
    /\ \A i \in DOMAIN stores :
          /\ View(stores[i].defaultState, stores[i].heap) = InitialView
          /\ stores[i].defaultState["n"] # stores[i].reactiveState["n"]
    /\ lastOp.op = "reset" => StateView(lastOp.store) = InitialView

\* The step is a $reset of store i.
ResetOf(i) ==
    lastOp'.op = "reset" /\ lastOp'.store = i

\* C11: a $reset that changes the state makes one call to each subscriber
\* of the store, however many fields it restores or deletes.
C11_ResetNotifiesOnce ==
    [][\A i \in DOMAIN stores :
         (ResetOf(i) /\ StateView(i)' # StateView(i)) =>
             \A cb \in AllCallbacks :
                 Count(Called', cb) = Count(stores[i].subscriptions, cb)]_vars

\* C12: every subscriber call of an operation is made with the state as
\* the operation leaves it, never with a state part of the way there.
C12_NoTornState ==
    \A k \in 1..Len(delivered) :
        delivered[k].state = StateView(delivered[k].store)

\* C13: $reset leaves the subscriptions, the watcher and the properties of
\* the store instance as they are; every handle then reads the value
\* $reset stored, and the first change after the $reset is delivered to
\* every subscriber, with the state it made.
C13_ResetInPlace ==
    [][\A i \in DOMAIN stores :
         /\ ResetOf(i) =>
              /\ stores'[i].subscriptions = stores[i].subscriptions
              /\ stores'[i].stopWatcher = stores[i].stopWatcher
              /\ stores'[i].watches = stores[i].watches
              /\ stores'[i].tokens = stores[i].tokens
              /\ stores'[i].storeInstance = stores[i].storeInstance
              /\ DOMAIN stores'[i].reactiveState = DOMAIN stores[i].defaultState
              /\ \A k \in DOMAIN stores[i].storeInstance :
                    stores[i].storeInstance[k].kind = "handle" =>
                        Read(i, k)' = View(stores'[i].defaultState, stores'[i].heap)[k]
         /\ ( /\ lastOp.op = "reset" /\ lastOp.store = i
              /\ lastOp'.op \in {"setHandle", "setNested", "setState"}
              /\ lastOp'.store = i
              /\ StateView(i)' # StateView(i) ) =>
                 /\ Called' = stores[i].subscriptions
                 /\ \A k \in 1..Len(delivered') : delivered'[k].state = StateView(i)']_vars

\* C13's case: a $reset of a store with a subscriber and a changed field:
\* the subscriber was called, the watcher is there, the handle of a reads
\* the initial value again.
C13_Witness ==
    /\ lastOp.op = "reset"
    /\ Len(delivered) > 0
    /\ stores[lastOp.store].stopWatcher
    /\ stores[lastOp.store].storeInstance["a"].kind = "handle"
    /\ Read(lastOp.store, "a") = InitialView["a"]
    /\ "extra" \notin DOMAIN stores[lastOp.store].reactiveState

\* C14: increment(amount) adds amount to field a of the store's state, and
\* incrementTwice(), which calls this.increment(1) twice, adds 2; the
\* instance, the getter and the subscribers see the new value.
C14_ActionsShareState ==
    [][\A i \in DOMAIN stores :
         (lastOp'.op \in {"increment", "incrementTwice"} /\ lastOp'.store = i) =>
             /\ StateView(i)'["a"] = StateView(i)["a"] + lastOp'.val
             /\ Read(i, "a")' = StateView(i)'["a"]
             /\ stores'[i].dirty
             /\ Len(stores[i].subscriptions) > 0 => Len(delivered') > 0]_vars

\* C19: every field of the state has its handle on the instance, and the
\* handle reads the field of the live state, whatever changed it ($reset
\* included); a write through the handle of a field puts the value in the
\* state and, when it changes the state, calls every subscriber once with
\* the new state.
C19_HandlesShareCells ==
    /\ [](\A i \in DOMAIN stores : \A k \in DOMAIN StateFactory.state :
            /\ stores[i].storeInstance[k] = Slot("handle", k, 0)
            /\ Read(i, k) = StateView(i)[k])
    /\ [][\A i \in DOMAIN stores :
            (lastOp'.op = "setHandle" /\ lastOp'.store = i) =>
                /\ StateView(i)' = Put(StateView(i), lastOp'.key, lastOp'.val)
                /\ StateView(i)' # StateView(i) =>
                      /\ Called' = stores[i].subscriptions
                      /\ \A k \in 1..Len(delivered') :
                            delivered'[k].state = StateView(i)']_vars

\* C19's case: a write of a new value through the handle of a, on a store
\* with a subscriber: the state and the handle give the value, and the
\* subscriber was called.
C19_Witness ==
    /\ lastOp.op = "setHandle"
    /\ lastOp.val = 2
    /\ StateView(lastOp.store)["a"] = 2
    /\ Read(lastOp.store, "a") = 2
    /\ Len(delivered) > 0

\* C20: a read of the getter runs the getter function exactly when no read
\* was made yet or field a changed since the last read, and gives the
\* getter's value for the state as it is; nothing else runs the function.
C20_GetterMemoized ==
    /\ [](\A i \in DOMAIN stores :
            ~stores[i].dirty => stores[i].cached = Getter(StateView(i)))
    /\ [][\A i \in DOMAIN stores :
            /\ (lastOp'.op = "readGetter" /\ lastOp'.store = i) =>
                 /\ stores'[i].getterRuns =
                       stores[i].getterRuns + (IF stores[i].dirty THEN 1 ELSE 0)
                 /\ lastOp'.val = Getter(StateView(i))
            /\ stores'[i].getterRuns # stores[i].getterRuns =>
                 lastOp'.op = "readGetter"
            /\ (~stores[i].dirty /\ stores'[i].dirty) <=>
                 (~stores[i].dirty /\ StateView(i)'["a"] # StateView(i)["a"])]_vars

\* C20's case: the getter was read, field a was changed, and the getter is
\* read again: the function ran a second time, for the new value.
C20_Witness ==
    /\ lastOp.op = "readGetter"
    /\ stores[lastOp.store].getterRuns = 2
    /\ StateView(lastOp.store)["a"] = 2
    /\ lastOp.val = 4

\* The calls of a sequence of plugin calls that belong to assembly n.
CallsIn(log, n) ==
    LET OfAssembly(e) == e.store = n
    IN  SelectSeq(log, OfAssembly)

\* The plugin calls of assembly n of identifier id under registry r, in
\* the order they were made.
CallsOf(r, id, n) ==
    CallsIn(pluginLog[r][id], n)

\* Everything setupStore attaches to an instance.
Attached ==
    ActionNames \cup (DOMAIN StateFactory.state) \cup GetterNames \cup MethodNames

\* C15: the plugin calls of every assembly are those of the registry's
\* list, in the order of the list, each once, up to the end of the list
\* when the assembly completed (its instance was returned); each call is
\* handed an instance with actions, state, getters and control methods
\* attached, which the registry does not hold yet.
C15_PluginOrder ==
    \A r \in Registries, id \in Ids : \A n \in 1..attempts[r][id] :
        LET calls == CallsOf(r, id, n)
        IN  /\ Len(calls) <= Len(plugins[r])
            /\ \A j \in 1..Len(calls) :
                  /\ calls[j].k = j
                  /\ Attached \subseteq calls[j].attached
                  /\ ~calls[j].registered
            /\ <<r, id, n>> \in Held => Len(calls) = Len(plugins[r])

\* C15's case: a registry with three plugins assembled an identifier a
\* second time, after an assembly that its second plugin aborted: two
\* calls for the first assembly, three for the second.
C15_Witness ==
    /\ lastOp.op = "useStore"
    /\ lastOp.key = "miss"
    /\ Len(plugins[lastOp.reg]) = 3
    /\ lastOp.store[3] = 2
    /\ Len(CallsOf(lastOp.reg, lastOp.store[2], 1)) = 2
    /\ Len(CallsOf(lastOp.reg, lastOp.store[2], 2)) = 3

\* The step is a lookup of identifier id under registry r that invoked the
\* state factory.
Assembling(r, id) ==
    /\ lastOp'.op = "useStore"
    /\ lastOp'.reg = r
    /\ attempts'[r][id] > attempts[r][id]

\* The step is a lookup of id under r, made after a lookup of id threw,
\* that assembled without a throw.
Reassembled(r, id) ==
    /\ Assembling(r, id)
    /\ threw[r][id] > 0
    /\ threw'[r][id] = threw[r][id]

\* C16: a lookup whose state factory throws (the factory ran, no store was
\* built) throws to its caller and leaves the registries, the stores and
\* the plugin calls as they were; a later lookup whose assembly does not
\* throw returns a new instance with the initial state, which the registry
\* then holds.
C16_FactoryThrowNonPoisoning ==
    [][\A r \in Registries, id \in Ids :
         /\ (Assembling(r, id) /\ DOMAIN stores' = DOMAIN stores) =>
              /\ lastOp'.key = "throw"
              /\ lastOp'.store = <<>>
              /\ id \notin DOMAIN activeStores'[r]
              /\ UNCHANGED <<activeStores, stores, pluginLog, returned>>
              /\ delivered' = <<>>
         /\ Reassembled(r, id) =>
              /\ lastOp'.key = "miss"
              /\ lastOp'.store \notin DOMAIN stores
              /\ lastOp'.store \in DOMAIN stores'
              /\ View(stores'[lastOp'.store].reactiveState,
                      stores'[lastOp'.store].heap) = InitialView
              /\ activeStores'[r] = Put(activeStores[r], id, lastOp'.store)
              /\ lastOp'.store \in returned'[r][id]]_vars

\* C16's case: the first lookup of an identifier threw in the state
\* factory, the second assembled and registered the store.
C16_Witness ==
    /\ lastOp.op = "useStore"
    /\ lastOp.key = "miss"
    /\ lastOp.store[3] = 2
    /\ threw[lastOp.reg][lastOp.store[2]] = 1
    /\ <<lastOp.reg, lastOp.store[2], 1>> \notin DOMAIN stores
    /\ activeStores[lastOp.reg][lastOp.store[2]] = lastOp.store

\* C17: a lookup in which a plugin throws (a store was built, the lookup
\* threw) throws to its caller, made no call of a plugin after the one
\* that threw, and leaves the registry and the instances returned as they
\* were, the store built being in neither; a later lookup whose assembly
\* does not throw invokes the state factory again and calls every plugin
\* of the list for the new instance.
C17_PluginThrowAborts ==
    [][\A r \in Registries, id \in Ids :
         /\ ( /\ Assembling(r, id)
              /\ threw'[r][id] > threw[r][id]
              /\ DOMAIN stores' # DOMAIN stores ) =>
                LET n == attempts'[r][id]
                    calls == CallsIn(pluginLog'[r][id], n)
                IN  /\ lastOp'.key = "throw"
                    /\ Len(calls) \in 1..Len(plugins[r])
                    /\ plugins[r][Len(calls)] = "mayThrow"
                    /\ Len(pluginLog'[r][id]) = Len(pluginLog[r][id]) + Len(calls)
                    /\ UNCHANGED <<activeStores, returned>>
                    /\ <<r, id, n>> \notin Held'
         /\ Reassembled(r, id) =>
                /\ lastOp'.store[3] > attempts[r][id]
                /\ Len(CallsIn(pluginLog'[r][id], lastOp'.store[3])) = Len(plugins[r])]_vars

\* C17's case: the second plugin of three threw in the first lookup of an
\* identifier: two plugin calls, a store no one holds, an empty registry.
C17_Witness ==
    /\ lastOp.op = "useStore"
    /\ lastOp.key = "throw"
    /\ \E id \in Ids :
          /\ <<lastOp.reg, id, 1>> \in (DOMAIN stores) \ Held
          /\ Len(CallsOf(lastOp.reg, id, 1)) = 2
          /\ Len(plugins[lastOp.reg]) = 3
          /\ id \notin DOMAIN activeStores[lastOp.reg]

\* C18: a lookup made where no registry is installed throws, every time,
\* and changes nothing: no state factory call, no plugin call, no store
\* built, the same registries, no subscriber call.
C18_NoRegistryThrows ==
    [][lastOp'.reg = NoRegistry =>
          /\ lastOp'.key = "throw"
          /\ lastOp'.store = <<>>
          /\ UNCHANGED <<plugins, activeStores, stores, attempts, pluginLog,
                         returned, threw, nestedLookup>>
          /\ delivered' = <<>>]_vars

\* C18's case: a lookup without registry of an identifier that a registry
\* installed elsewhere holds, and of which a lookup there returned a store
\* with a subscriber.
C18_Witness ==
    /\ lastOp.op = "useStore"
    /\ lastOp.reg = NoRegistry
    /\ lastOp.key = "throw"
    /\ \E id \in Ids :
          /\ id \in DOMAIN activeStores["app1"]
          /\ Len(stores[activeStores["app1"][id]].subscriptions) > 0

\* C21: after an assignment to the getter's name on the store instance, a
\* read of that name still gives the getter's value for the current state.
C21_GetterReadOnly ==
    [][\A i \in DOMAIN stores :
         ( /\ lastOp'.op = "setDirect"
           /\ lastOp'.store = i
           /\ lastOp'.key \in GetterNames ) =>
             Read(i, "double")' = Getter(StateView(i))']_vars

\* C22: in a lookup of identifier id during which a plugin looks id up
\* again, the registry has no entry for id before the lookup nor at any
\* plugin call; the state factory is invoked twice and two instances are
\* built, each with every plugin called; the inner lookup returns the
\* inner instance, the outer lookup returns the outer one, and the
\* registry ends up holding the outer one.
C22_ReentrantLookup ==
    [][\A r \in Registries, id \in Ids :
         (~nestedLookup[r][id] /\ nestedLookup'[r][id]) =>
             LET outer == <<r, id, attempts[r][id] + 1>>
                 inner == <<r, id, attempts[r][id] + 2>>
                 made == SubSeq(pluginLog'[r][id], Len(pluginLog[r][id]) + 1,
                                Len(pluginLog'[r][id]))
             IN  /\ id \notin DOMAIN activeStores[r]
                 /\ attempts'[r][id] = attempts[r][id] + 2
                 /\ {outer, inner} \cap DOMAIN stores = {}
                 /\ {outer, inner} \subseteq DOMAIN stores'
                 /\ Len(CallsIn(made, outer[3])) = Len(plugins[r])
                 /\ Len(CallsIn(made, inner[3])) = Len(plugins[r])
                 /\ \A j \in 1..Len(made) : ~made[j].registered
                 /\ returned'[r][id] = returned[r][id] \cup {outer, inner}
                 /\ lastOp'.key = "miss"
                 /\ lastOp'.store = outer
                 /\ activeStores'[r] = Put(activeStores[r], id, outer)]_vars

\* C22's case: a plugin looked the identifier up during its first
\* assembly: two instances were returned, the registry holds the first
\* built, the outer one.
C22_Witness ==
    /\ lastOp.op = "useStore"
    /\ lastOp.key = "miss"
    /\ nestedLookup[lastOp.reg][lastOp.store[2]]
    /\ lastOp.store[3] = 1
    /\ returned[lastOp.reg][lastOp.store[2]] =
          {lastOp.store, <<lastOp.reg, lastOp.store[2], 2>>}
    /\ activeStores[lastOp.reg][lastOp.store[2]] = lastOp.store

\* C23: at a state change during which a callback calls its own
\* unsubscribe function, every other callback is called once for each of
\* its subscriptions.
C23_UnsubscribeDuringDelivery ==
    [][\A i \in DOMAIN stores :
         ChangeByHandle(i) =>
             \A cb \in AllCallbacks \ {OnceCallback} :
                 Count(Called', cb) = Count(stores[i].subscriptions, cb)]_vars

\* C24: whatever names a definition gives its actions, state fields and
\* getters, the assembled instance exposes exactly those names and the
\* methods; $reset and $subscribe are always the built-in methods, a getter
\* name that is not a method name is the getter's computed, a state field
\* name that is neither is the field's handle, and an action name that is
\* none of these is the bound action.
C24_AttachOrder ==
    lastOp.op = "defineStore" =>
        LET actions == lastOp.key[1]
            fields == lastOp.key[2]
            getters == lastOp.key[3]
            inst == lastOp.val
        IN  /\ DOMAIN inst = actions \cup fields \cup getters \cup MethodNames
            /\ \A k \in MethodNames : inst[k].kind = "method"
            /\ \A k \in getters \ MethodNames : inst[k].kind = "computed"
            /\ \A k \in fields \ (getters \cup MethodNames) :
                    inst[k].kind = "handle"
            /\ \A k \in actions \ (fields \cup getters \cup MethodNames) :
                    inst[k].kind = "action"

C24_Witness ==
    /\ lastOp.op = "defineStore"
    /\ lastOp.key = << {"x", "$reset"}, {"x", "$subscribe"}, {"x", "$reset"} >>
    /\ lastOp.val["x"].kind = "computed"
    /\ lastOp.val["$reset"].kind = "method"
    /\ lastOp.val["$subscribe"].kind = "method"

\* C25: a write through a handle of store i, or a $reset of store i, calls
\* only callbacks subscribed on store i, each with store i's identifier and
\* type "direct"; a callback that is subscribed only on other stores is not
\* called, and every other store, its subscription list and its watcher
\* included, is left as it was.
C25_SubscriptionsPerStore ==
    [][\A i \in DOMAIN stores :
         (lastOp'.op \in {"setHandle", "reset"} /\ lastOp'.store = i) =>
             /\ \A k \in 1..Len(delivered') :
                    /\ delivered'[k].store = i
                    /\ delivered'[k].storeId = stores[i].id
                    /\ delivered'[k].type = "direct"
                    /\ Count(stores[i].subscriptions, delivered'[k].cb) > 0
             /\ \A cb \in AllCallbacks :
                    Count(stores[i].subscriptions, cb) = 0 => Count(Called', cb) = 0
             /\ \A j \in (DOMAIN stores) \ {i} : stores'[j] = stores[j]]_vars

C25_Witness ==
    /\ lastOp.op \in {"setHandle", "reset"}
    /\ lastOp.store \in DOMAIN stores
    /\ Len(delivered) > 0
    /\ "cb1" \in {delivered[k].cb : k \in 1..Len(delivered)}
    /\ \E j \in DOMAIN stores :
          /\ j[2] # lastOp.store[2]
          /\ stores[j].stopWatcher
          /\ Count(stores[j].subscriptions, "cb2") > 0
          /\ Count(stores[lastOp.store].subscriptions, "cb2") = 0

====
